---------------------------- MODULE Spec2Model ----------------------------
(***************************************************************************)
(* Model of the explore GPT client library: the SSE stream decoder that    *)
(* GptClient::ask_stream spawns (src/src/lib.rs), its bounded channel to   *)
(* the consumer (src/src/main.rs), and the GptConfigBuilder                *)
(* (src/src/config.rs).                                                    *)
(*                                                                         *)
(* Text is a sequence of units.  A unit is a short piece of the byte       *)
(* stream: a newline, a space, the word "data:", the word "[DONE]", or a   *)
(* JSON document.  One document, whose content ends with a two-byte        *)
(* character, is two units, cut inside that character, so that a chunk     *)
(* boundary can fall inside a code point.                                  *)
(***************************************************************************)
EXTENDS Integers, Sequences, FiniteSets, TLC

----------------------------------------------------------------------------
(* Bounds of the model *)

\* frames of a short body
MaxFrames == 2
\* frames of the long body, the one that fills the channel
LongFrames == 101
\* setter calls on a client builder
MaxCalls == 3

\* mpsc::channel(100)
ChannelCapacity == 100

----------------------------------------------------------------------------
(* Option<T>: None is <<>>, Some(v) is <<v>> *)

None == <<>>
Some(v) == <<v>>
IsSome(o) == Len(o) = 1
Unwrap(o) == o[1]

----------------------------------------------------------------------------
(* Text units *)

NL == "\n"
SP == " "

\* the literal "data: "
DataPrefix == <<"data:", SP>>
\* the literal "[DONE]"
DoneSentinel == <<"[DONE]">>
\* the literal "\n\n"
Terminator == <<NL, NL>>

\* units that end with the first byte of a two-byte character
LeadUnits == {"{caf<C3>"}
\* units that begin with the second byte of a two-byte character
ContUnits == {"<A9>}"}

\* String::from_utf8(chunk.to_vec()).is_ok(): every lead byte is followed,
\* inside the same chunk, by its continuation byte, and no continuation
\* byte stands without its lead byte.
RECURSIVE Utf8From(_, _, _)
Utf8From(bytes, i, needCont) ==
    IF i > Len(bytes) THEN ~needCont
    ELSE IF needCont
         THEN bytes[i] \in ContUnits /\ Utf8From(bytes, i + 1, FALSE)
         ELSE /\ bytes[i] \notin ContUnits
              /\ Utf8From(bytes, i + 1, bytes[i] \in LeadUnits)

IsUtf8(bytes) == Utf8From(bytes, 1, FALSE)

\* str::starts_with
StartsWith(s, p) ==
    /\ Len(s) >= Len(p)
    /\ SubSeq(s, 1, Len(p)) = p

\* str::trim_start_matches: removes the pattern from the start repeatedly
RECURSIVE TrimStartMatches(_, _)
TrimStartMatches(s, p) ==
    IF Len(p) > 0 /\ StartsWith(s, p)
    THEN TrimStartMatches(SubSeq(s, Len(p) + 1, Len(s)), p)
    ELSE s

\* str::find("\n\n"): the least position (from 0) where the pattern starts,
\* None when there is none
RECURSIVE FindFrom(_, _, _)
FindFrom(s, p, i) ==
    IF i + Len(p) > Len(s) THEN None
    ELSE IF SubSeq(s, i + 1, i + Len(p)) = p THEN Some(i)
    ELSE FindFrom(s, p, i + 1)

\* a variant that takes the end of the text for a terminator
FindOrEnd(s, p) ==
    IF FindFrom(s, p, 0) # None THEN FindFrom(s, p, 0)
    ELSE IF Len(s) > 0 THEN Some(Len(s)) ELSE None

Find(s, p) == FindFrom(s, p, 0)

----------------------------------------------------------------------------
(* models.rs: GptResponse, Choice, Delta, ResponseMessage *)

Delta(content) == [content |-> content]
ResponseMessage(content) == [content |-> content]
Choice(message, delta) == [message |-> message, delta |-> delta]
GptResponse(choices) == [choices |-> choices]

\* The JSON documents of the model, each with the value serde_json gives it.
\* Every choice of these documents carries "index".
Documents ==
    [ Hello     |-> GptResponse(<<Choice(None, Some(Delta(Some("Hello"))))>>),
      World     |-> GptResponse(<<Choice(None, Some(Delta(Some(" world"))))>>),
      Cafe      |-> GptResponse(<<Choice(None, Some(Delta(Some("caf<C3><A9>"))))>>),
      Empty     |-> GptResponse(<<Choice(None, Some(Delta(Some(""))))>>),
      NoContent |-> GptResponse(<<Choice(None, Some(Delta(None)))>>),
      NoDelta   |-> GptResponse(<<Choice(None, None)>>),
      NoChoices |-> GptResponse(<<>>),
      Second    |-> GptResponse(<<Choice(None, None),
                                  Choice(None, Some(Delta(Some("late"))))>>),
      Message   |-> GptResponse(<<Choice(Some(ResponseMessage("answer")), None)>>),
      LateMessage  |-> GptResponse(<<Choice(None, None),
                                     Choice(Some(ResponseMessage("later")), None)>>),
      EmptyMessage |-> GptResponse(<<Choice(Some(ResponseMessage("")), None)>>) ]

\* The text of each document, in units.
DocumentText ==
    [ Hello     |-> <<"{Hello}">>,
      World     |-> <<"{ world}">>,
      Cafe      |-> <<"{caf<C3>", "<A9>}">>,
      Empty     |-> <<"{empty}">>,
      NoContent |-> <<"{nocontent}">>,
      NoDelta   |-> <<"{nodelta}">>,
      NoChoices |-> <<"{nochoices}">>,
      Second    |-> <<"{second}">>,
      Message   |-> <<"{message}">>,
      LateMessage  |-> <<"{latemessage}">>,
      EmptyMessage |-> <<"{emptymessage}">> ]

\* Text that is no document of the response shape: JSON cut short, and a
\* document whose choice lacks the required field "index" (Choice.index is
\* an i32 without a default).
TruncatedJson == <<"{trunc">>
NoIndexJson == <<"{noindex}">>

Whitespace == {SP, NL}

RECURSIVE TrimStart(_)
TrimStart(s) ==
    IF Len(s) > 0 /\ Head(s) \in Whitespace THEN TrimStart(Tail(s)) ELSE s

RECURSIVE TrimEnd(_)
TrimEnd(s) ==
    IF Len(s) > 0 /\ s[Len(s)] \in Whitespace
    THEN TrimEnd(SubSeq(s, 1, Len(s) - 1))
    ELSE s

\* The document each document text stands for.
DocumentOfText ==
    [ text \in { DocumentText[d] : d \in DOMAIN DocumentText } |->
        Documents[CHOOSE d \in DOMAIN DocumentText : DocumentText[d] = text] ]

\* serde_json::from_str::<GptResponse>(data): whitespace around the
\* document is skipped; Some(response) for Ok, None for Err.
FromStr(data) ==
    LET core == TrimEnd(TrimStart(data))
    IN IF core \in DOMAIN DocumentOfText
       THEN Some(DocumentOfText[core])
       ELSE None

----------------------------------------------------------------------------
(* Items of the channel: Result<String, GptError> *)

Ok(content) == [ok |-> TRUE, val |-> content]
Err(kind) == [ok |-> FALSE, val |-> kind]
ParseError == Err("ParseError")
RequestError == Err("RequestError")

----------------------------------------------------------------------------
(* The body of one frame scan, lib.rs 152-175 *)

\* response.choices.first()
First(choices) == IF Len(choices) = 0 THEN None ELSE Some(choices[1])

\* a variant that lets the empty string through
NotEmptyUnchecked(content) == TRUE

\* !content.is_empty()
NotEmpty(content) == content # ""

\* a variant that reads the last choice, not the first
FragmentOfLastChoice(response) ==
    LET n == Len(response.choices)
    IN IF n = 0 THEN None
       ELSE LET delta == response.choices[n].delta
            IN IF ~IsSome(delta) THEN None
               ELSE LET content == Unwrap(delta).content
                    IN IF IsSome(content) /\ Unwrap(content) # ""
                       THEN Some(Ok(Unwrap(content)))
                       ELSE None

\* lib.rs 159-169: what a decoded response sends, None when nothing
Fragment(response) ==
    LET choice == First(response.choices)
    IN IF ~IsSome(choice) THEN None
       ELSE LET delta == Unwrap(choice).delta
            IN IF ~IsSome(delta) THEN None
               ELSE LET content == Unwrap(delta).content
                    IN IF ~IsSome(content) THEN None
                       ELSE IF NotEmpty(Unwrap(content))
                            THEN Some(Ok(Unwrap(content)))
                            ELSE None

\* lib.rs 170-173: what a payload that does not decode sends
OnParseFailure == Some(ParseError)

\* lib.rs 153: the payload of a data frame
Payload(message) == TrimStartMatches(message, DataPrefix)

\* lib.rs 152-175: the outcome of one frame: break is TRUE when the scan loop
\* is left, send is the item sent, None when nothing is sent.
ProcessFrame(message) ==
    IF ~StartsWith(message, DataPrefix)
    THEN [break |-> FALSE, send |-> None]
    ELSE LET data == Payload(message)
         IN IF data = DoneSentinel
            THEN [break |-> TRUE, send |-> None]
            ELSE LET parsed == FromStr(data)
                 IN IF IsSome(parsed)
                    THEN [break |-> FALSE, send |-> Fragment(Unwrap(parsed))]
                    ELSE [break |-> FALSE, send |-> OnParseFailure]

----------------------------------------------------------------------------
(* The bodies the server sends *)

RECURSIVE Concat(_)
Concat(seqs) == IF Len(seqs) = 0 THEN <<>> ELSE Head(seqs) \o Concat(Tail(seqs))

\* The documents that the frames of the bodies carry.
StreamDocuments ==
    { "Hello", "World", "Cafe", "Empty", "NoContent", "NoDelta", "NoChoices",
      "Second", "Message" }

\* Frame texts, without their terminator.
FrameTexts ==
    { DataPrefix \o DocumentText[d] : d \in StreamDocuments }
    \cup { DataPrefix \o TruncatedJson,
           DataPrefix \o NoIndexJson,
           DataPrefix \o DoneSentinel,
           DataPrefix \o DataPrefix \o DoneSentinel,
           <<"data:">> \o DocumentText.Hello,
           <<NL>> \o DataPrefix \o DocumentText.World }

\* The frames that follow the first frame of a short body.
CoreFrames ==
    { DataPrefix \o DocumentText.Hello,
      DataPrefix \o DocumentText.World,
      DataPrefix \o TruncatedJson,
      DataPrefix \o DoneSentinel }

\* A short body is one piece of text, up to MaxFrames frames with their
\* terminators; the transport cuts it into chunks anywhere.
ShortBodies ==
    UNION { { <<Concat(<<first \o Terminator>>
                       \o [i \in 1..n |-> rest[i] \o Terminator])>> :
              first \in FrameTexts, rest \in [1..n -> CoreFrames] } :
            n \in 0..(MaxFrames - 1) }

\* The long body is LongFrames pieces of one frame each: no chunk of it
\* holds more than one frame.
LongBody ==
    [i \in 1..LongFrames |-> DataPrefix \o DocumentText.Hello \o Terminator]

\* What stream.next().await can yield: Some(Ok(bytes)), Some(Err(e)), None.
OkChunk(bytes) == [kind |-> "ok", bytes |-> bytes]
ErrChunk == [kind |-> "err", bytes |-> <<>>]
EndOfBody == [kind |-> "end", bytes |-> <<>>]

\* The next chunk is a non-empty prefix of the first piece still to come.
\* The read can fail at any time, and the body can end at any time (the
\* server closes early).
NextResults(rest) ==
    {EndOfBody, ErrChunk}
    \cup (IF Len(rest) = 0 THEN {}
          ELSE { OkChunk(SubSeq(Head(rest), 1, k)) : k \in 1..Len(Head(rest)) })

\* The pieces still to come after a chunk of k units was taken.
Advance(rest, k) ==
    IF k = Len(Head(rest)) THEN Tail(rest)
    ELSE <<SubSeq(Head(rest), k + 1, Len(Head(rest)))>> \o Tail(rest)

----------------------------------------------------------------------------
(* config.rs: GptConfig and GptConfigBuilder *)

\* An f32, in hundredths: NaN, or a number (the infinities are the numbers
\* beyond every other).
Num(v) == [nan |-> FALSE, v |-> v]
NaN == [nan |-> TRUE, v |-> 0]
Infinity == Num(1000000000)
NegInfinity == Num(-1000000000)

\* f32 comparison: false when either side is NaN
Less(a, b) == ~a.nan /\ ~b.nan /\ a.v < b.v

\* f32::clamp(self, min, max): if self < min { min } else if self > max
\* { max } else { self }
Clamp(x, min, max) ==
    IF Less(x, min) THEN min ELSE IF Less(max, x) THEN max ELSE x

\* config.rs 11-22: GptConfig::default()
DefaultConfig ==
    [ temperature       |-> Num(70),
      max_tokens        |-> 800,
      top_p             |-> Num(95),
      frequency_penalty |-> Num(0),
      presence_penalty  |-> Num(0),
      stop              |-> None ]

\* config.rs 25-27, 30-38: GptConfig::builder(), every field None
NewBuilder ==
    [ temperature       |-> None,
      max_tokens        |-> None,
      top_p             |-> None,
      frequency_penalty |-> None,
      presence_penalty  |-> None,
      stop              |-> None ]

\* config.rs 43
ClampTemperature(temp) == Clamp(temp, Num(0), Num(200))
\* config.rs 49: the tokens are stored as given
StoreMaxTokens(tokens) == tokens
\* config.rs 55
ClampTopP(top_p) == Clamp(top_p, Num(0), Num(100))
\* config.rs 61, 67
ClampPenalty(penalty) == Clamp(penalty, Num(-200), Num(200))

\* option.unwrap_or(default)
UnwrapOr(o, default) == IF IsSome(o) THEN Unwrap(o) ELSE default

\* config.rs 77-88: GptConfigBuilder::build
BuildConfig(b) ==
    [ temperature       |-> UnwrapOr(b.temperature, DefaultConfig.temperature),
      max_tokens        |-> UnwrapOr(b.max_tokens, DefaultConfig.max_tokens),
      top_p             |-> UnwrapOr(b.top_p, DefaultConfig.top_p),
      frequency_penalty |-> UnwrapOr(b.frequency_penalty,
                                     DefaultConfig.frequency_penalty),
      presence_penalty  |-> UnwrapOr(b.presence_penalty,
                                     DefaultConfig.presence_penalty),
      stop              |-> b.stop ]

\* The raw values the setters are called with.
RawFloats ==
    { NegInfinity, Num(-300), Num(-100), Num(0), Num(80), Num(150), Num(500),
      Infinity, NaN }
RawTokens == {0, 1, 1000, 2000000000}
RawStops == { <<>>, <<"x", "y">> }

----------------------------------------------------------------------------
(* lib.rs: GptClientBuilder *)

\* lib.rs 202-207, 33-35: GptClient::builder(), every field None
NewClientBuilder == [api_url |-> None, api_key |-> None, config |-> None]

\* error.rs 20-21
ConfigError(message) == [ok |-> FALSE, val |-> "ConfigError", message |-> message]

\* lib.rs 23-28
GptClient(api_url, api_key, cfg) ==
    [ok |-> TRUE, api_url |-> api_url, api_key |-> api_key, config |-> cfg]

\* a variant that does not ask for the key
BuildClientWithoutKey(b) ==
    IF ~IsSome(b.api_url) THEN ConfigError("API URL is required")
    ELSE GptClient(Unwrap(b.api_url), UnwrapOr(b.api_key, ""),
                   UnwrapOr(b.config, DefaultConfig))

\* lib.rs 230-251: GptClientBuilder::build
BuildClient(b) ==
    IF ~IsSome(b.api_url) THEN ConfigError("API URL is required")
    ELSE IF ~IsSome(b.api_key) THEN ConfigError("API key is required")
    ELSE GptClient(Unwrap(b.api_url), Unwrap(b.api_key),
                   UnwrapOr(b.config, DefaultConfig))

\* The values the setters are called with.
RawUrls == {"https://a.example", "https://b.example"}
RawKeys == {"key1", "key2"}
RawConfigs ==
    { DefaultConfig,
      [DefaultConfig EXCEPT !.temperature = Num(200), !.max_tokens = 1] }

----------------------------------------------------------------------------
(* lib.rs: the request of ask and ask_stream, up to the response *)

\* The body of a response read in full (response.json(), response.text()):
\* read, or failed; and the body of a response that is streamed.
FullBody(bytes) == [read |-> "ok", bytes |-> bytes]
FailedBody == [read |-> "failed", bytes |-> <<>>]
StreamedBody == [read |-> "streamed", bytes |-> <<>>]

HttpResponse(status, text) == [status |-> status, text |-> text]

\* StatusCode::is_success
IsSuccess(status) == status >= 200 /\ status < 300

\* error.rs 8-9
HeaderError == Err("HeaderError")

\* error.rs 11-15
ApiError(status_code, message) ==
    [ ok |-> FALSE, val |-> "ApiError",
      status_code |-> status_code, message |-> message ]

\* U+FFFD in place of the bytes of a unit that are no UTF-8
Replaced(unit) ==
    CASE unit = "{caf<C3>" -> "{caf<FFFD>"
      [] unit = "<A9>}" -> "<FFFD>}"
      [] OTHER -> unit

\* response.text(): the bytes decoded as UTF-8, U+FFFD for what is not
RECURSIVE DecodeLossyFrom(_, _)
DecodeLossyFrom(bytes, i) ==
    IF i > Len(bytes) THEN <<>>
    ELSE IF bytes[i] \in LeadUnits
         THEN IF i < Len(bytes) /\ bytes[i + 1] \in ContUnits
              THEN <<bytes[i], bytes[i + 1]>> \o DecodeLossyFrom(bytes, i + 2)
              ELSE <<Replaced(bytes[i])>> \o DecodeLossyFrom(bytes, i + 1)
         ELSE IF bytes[i] \in ContUnits
              THEN <<Replaced(bytes[i])>> \o DecodeLossyFrom(bytes, i + 1)
              ELSE <<bytes[i]>> \o DecodeLossyFrom(bytes, i + 1)

DecodeLossy(bytes) == DecodeLossyFrom(bytes, 1)

\* a variant that reports every failure with the same status code
HandleErrorResponseFixedStatus(r) ==
    ApiError(500, IF r.text.read = "ok" THEN DecodeLossy(r.text.bytes)
                  ELSE <<"Unknown error">>)

\* lib.rs 191-198: handle_error_response
HandleErrorResponse(r) ==
    ApiError(r.status, IF r.text.read = "ok" THEN DecodeLossy(r.text.bytes)
                       ELSE <<"Unknown error">>)

\* lib.rs 96: response.json::<GptResponse>(): Some(response) for Ok, None
\* for Err (the body could not be read, or is no document)
Json(text) ==
    IF text.read = "ok" /\ IsUtf8(text.bytes) THEN FromStr(text.bytes)
    ELSE None

\* a variant that takes the first message of any choice
AnyMessageContent(data) ==
    LET having == SelectSeq(data.choices, LAMBDA c : IsSome(c.message))
    IN IF Len(having) = 0 THEN None
       ELSE Some(Unwrap(having[1].message).content)

\* lib.rs 103-104: choices.first().and_then(|choice| choice.message
\* .as_ref().map(|msg| msg.content.clone()))
FirstMessageContent(data) ==
    LET choice == First(data.choices)
    IN IF ~IsSome(choice) THEN None
       ELSE IF ~IsSome(Unwrap(choice).message) THEN None
       ELSE Some(Unwrap(Unwrap(choice).message).content)

\* lib.rs 89-108: what ask returns for a response
AskResponse(r) ==
    IF ~IsSuccess(r.status) THEN HandleErrorResponse(r)
    ELSE LET data == Json(r.text)
         IN IF ~IsSome(data) THEN ParseError
            ELSE LET content == FirstMessageContent(Unwrap(data))
                 IN IF IsSome(content) THEN Ok(Unwrap(content))
                    ELSE ParseError

\* The responses of the model.
Statuses == {200, 201, 301, 404, 500}

FullTexts ==
    { DocumentText[d] : d \in DOMAIN DocumentText }
    \cup { <<SP>> \o DocumentText.Message \o <<NL>>,
           TruncatedJson, NoIndexJson, <<>>, <<"quota">>,
           <<"{caf<C3>">>, <<"<A9>}", "quota">> }

FullResponses ==
    { HttpResponse(st, FullBody(t)) : st \in Statuses, t \in FullTexts }
    \cup { HttpResponse(st, FailedBody) : st \in Statuses }

\* the 2xx response whose body the decoder task streams
StreamedResponse == HttpResponse(200, StreamedBody)

\* lib.rs 187: Ok(ReceiverStream::new(rx))
StreamHandle == Ok("stream")

----------------------------------------------------------------------------
(* State *)

VARIABLES
    body,         \* response.bytes_stream(): the text still to come
    buffer,       \* the decoder's text buffer
    pc,           \* the decoder task: "read", "scan", "send" or "done"
    pending,      \* the item of the tx.send the decoder is in, None otherwise
    chan,         \* the items in the channel
    rx,           \* the receiver: "open", "dropped" or "ended"
    received,     \* the items the consumer has received
    wire,         \* history: the text of the chunks that decoded as UTF-8
    transport,    \* history: "open", "failed" (read error) or "ended"
    sent,         \* history: the items given to tx.send, in order
    discarded,    \* history: a send has failed because the receiver was gone
    sentinelSeen, \* history: a sentinel frame has been processed
    invalidSeen,  \* history: a chunk that is no UTF-8 has been read
    splitAt,      \* history: when the last chunk began with the second
                  \*   newline of a terminator whose first newline ended the
                  \*   buffer, the place of that first newline in the wire
                  \*   text; 0 otherwise
    builder,      \* the GptConfigBuilder
    config,       \* the GptConfig that build() returned, None before
    raw,          \* history: the argument of the last call of each setter of
                  \*   the GptConfigBuilder, None for a setter never called
    clientBuilder,\* the GptClientBuilder
    client,       \* what GptClientBuilder::build returned, None before
    calls,        \* history: the setter calls made on the GptClientBuilder
    method,       \* the method called: "none", "ask" or "ask_stream"
    caller,       \* the caller of ask or ask_stream: "ready", "spawned"
                  \*   (ask_stream has spawned the task) or "returned"
    response,     \* the response to the request, None before
    outcome       \* what ask or ask_stream returned, None before

streamVars == <<body, buffer, pc, pending, chan, rx, received, wire,
                transport, sent, discarded, sentinelSeen, invalidSeen,
                splitAt>>

configVars == <<builder, config, raw>>

clientVars == <<clientBuilder, client, calls>>

requestVars == <<method, caller, response, outcome>>

vars == <<streamVars, configVars, clientVars, requestVars>>

history == <<wire, transport, sent, discarded, sentinelSeen, invalidSeen,
             splitAt>>

InitWith(bodies) ==
    /\ body \in bodies
    /\ buffer = <<>>
    /\ pc = "read"
    /\ pending = None
    /\ chan = <<>>
    /\ rx = "open"
    /\ received = <<>>
    /\ wire = <<>>
    /\ transport = "open"
    /\ sent = <<>>
    /\ discarded = FALSE
    /\ sentinelSeen = FALSE
    /\ invalidSeen = FALSE
    /\ splitAt = 0
    /\ builder = NewBuilder
    /\ config = None
    /\ raw = NewBuilder
    /\ clientBuilder = NewClientBuilder
    /\ client = None
    /\ calls = <<>>
    /\ method = "ask_stream"
    /\ caller = "returned"
    /\ response = Some(StreamedResponse)
    /\ outcome = Some(StreamHandle)

Init == InitWith(ShortBodies)

----------------------------------------------------------------------------
(* The decoder task, lib.rs 139-185 *)

\* a variant that keeps only the last chunk
PushStrReplacing(buf, text) == text

\* lib.rs 146: buffer.push_str(&text)
PushStr(buf, text) == buf \o text

\* a variant that empties the buffer
PastTerminatorNothing(buf, pos) == <<>>

\* lib.rs 150: buffer = buffer[pos + 2..]
PastTerminator(buf, pos) == SubSeq(buf, pos + Len(Terminator) + 1, Len(buf))

\* lib.rs 142: while let Some(..) = stream.next().await: the loop, and with
\* it the task, ends with the body
OnEndOfBody == "done"

\* the chunk completes a terminator that the buffer holds the first half of
SplitsTerminator(buf, bytes) ==
    /\ ~IsSome(Find(buf, Terminator))
    /\ Len(buf) > 0 /\ buf[Len(buf)] = NL
    /\ Len(bytes) > 0 /\ bytes[1] = NL

\* a variant that forgets the buffer at a chunk that is no UTF-8
OnInvalidChunkClear(buf) == <<>>

\* lib.rs 145, 177: if let Ok(text) = String::from_utf8(..) has no else: the
\* buffer stays as it is
OnInvalidChunk(buf) == buf

\* lib.rs 142-146 and 179-180: stream.next().await and what follows it, up
\* to the scan loop, the send of the transport error or the end of the task
StreamNext ==
    /\ pc = "read"
    /\ \E r \in NextResults(body) :
          CASE r.kind = "ok" ->
                  /\ body' = Advance(body, Len(r.bytes))
                  /\ IF IsUtf8(r.bytes)
                     THEN /\ buffer' = PushStr(buffer, r.bytes)
                          /\ wire' = wire \o r.bytes
                          /\ splitAt' = IF SplitsTerminator(buffer, r.bytes)
                                        THEN Len(wire) ELSE 0
                          /\ pc' = "scan"
                     ELSE /\ buffer' = OnInvalidChunk(buffer)
                          /\ UNCHANGED <<wire, splitAt, pc>>
                  /\ invalidSeen' = (invalidSeen \/ ~IsUtf8(r.bytes))
                  /\ UNCHANGED <<pending, sent, transport>>
            [] r.kind = "err" ->
                  /\ pending' = Some(RequestError)
                  /\ sent' = Append(sent, RequestError)
                  /\ pc' = "send"
                  /\ transport' = "failed"
                  /\ UNCHANGED <<body, buffer, wire, splitAt, invalidSeen>>
            [] r.kind = "end" ->
                  /\ pc' = OnEndOfBody
                  /\ transport' = "ended"
                  /\ UNCHANGED <<body, buffer, wire, splitAt, pending, sent,
                                 invalidSeen>>
    /\ UNCHANGED <<chan, rx, received, discarded, sentinelSeen>>
    /\ UNCHANGED <<configVars, clientVars, requestVars>>

\* lib.rs 148-175: one turn of the scan loop, up to its send
ScanFrame ==
    /\ pc = "scan"
    /\ \E pos \in {Find(buffer, Terminator)} :
          IF ~IsSome(pos)
          THEN /\ pc' = "read"
               /\ UNCHANGED <<buffer, pending, sent, sentinelSeen>>
          ELSE \E out \in {ProcessFrame(SubSeq(buffer, 1, Unwrap(pos)))} :
                  /\ buffer' = PastTerminator(buffer, Unwrap(pos))
                  /\ pending' = out.send
                  /\ sent' = sent \o out.send
                  /\ sentinelSeen' = (sentinelSeen \/ out.break)
                  /\ pc' = IF out.break THEN "read"
                           ELSE IF IsSome(out.send) THEN "send"
                           ELSE "scan"
    /\ UNCHANGED <<body, chan, rx, received, wire, transport, discarded,
                   invalidSeen, splitAt>>
    /\ UNCHANGED <<configVars, clientVars, requestVars>>

\* a variant with one permit too many
HasPermitOneMore(q) == Len(q) <= ChannelCapacity

\* Sender::send waits for one of the channel's permits
HasPermit(q) == Len(q) < ChannelCapacity

\* a variant that leaves the task at any error item
AfterSendAbortOnError(item, sentOk) == IF item.ok THEN "scan" ELSE "done"

\* a variant without the break of lib.rs 181
AfterSendNoBreak(item, sentOk) == "scan"

\* a variant that leaves the task when the send fails
AfterSendStopWhenClosed(item, sentOk) ==
    IF item = RequestError \/ ~sentOk THEN "done" ELSE "scan"

\* lib.rs 164, 172, 180: let _ = tx.send(item).await: the result of the send
\* (sentOk) is ignored. lib.rs 181: the break after the transport error; the
\* other sends go on with the scan loop.
AfterSend(item, sentOk) == IF item = RequestError THEN "done" ELSE "scan"

\* tx.send(item).await: fails at once when the receiver is gone, waits while
\* the channel is full
Send ==
    /\ pc = "send"
    /\ IF rx = "dropped"
       THEN /\ discarded' = TRUE
            /\ pc' = AfterSend(Unwrap(pending), FALSE)
            /\ UNCHANGED chan
       ELSE /\ HasPermit(chan)
            /\ chan' = Append(chan, Unwrap(pending))
            /\ pc' = AfterSend(Unwrap(pending), TRUE)
            /\ UNCHANGED discarded
    /\ pending' = None
    /\ UNCHANGED <<body, buffer, rx, received, wire, transport, sent,
                   sentinelSeen, invalidSeen, splitAt>>
    /\ UNCHANGED <<configVars, clientVars, requestVars>>

----------------------------------------------------------------------------
(* The consumer, main.rs 70-83 *)

\* a variant where a clone of the sender outlives the task
SenderKept == FALSE

\* lib.rs 139, 185: tx is moved into the task and dropped where the task ends
SenderDropped == pc = "done"

\* main.rs 70: stream.next().await yields the oldest item, or None once the
\* sender is gone and the channel is empty
Recv ==
    /\ rx = "open"
    /\ IF Len(chan) > 0
       THEN /\ received' = Append(received, Head(chan))
            /\ chan' = Tail(chan)
            /\ UNCHANGED rx
       ELSE /\ SenderDropped
            /\ rx' = "ended"
            /\ UNCHANGED <<received, chan>>
    /\ UNCHANGED <<body, buffer, pc, pending>>
    /\ UNCHANGED history
    /\ UNCHANGED <<configVars, clientVars, requestVars>>

\* main.rs 78-83: the consumer leaves its loop and the stream is dropped: the
\* channel is closed and what it holds is discarded
DropReceiver ==
    /\ rx = "open"
    /\ rx' = "dropped"
    /\ chan' = <<>>
    /\ UNCHANGED <<body, buffer, pc, pending, received>>
    /\ UNCHANGED history
    /\ UNCHANGED <<configVars, clientVars, requestVars>>

Decoder == StreamNext \/ ScanFrame \/ Send

Consumer == Recv \/ DropReceiver

Next == Decoder \/ Consumer

Spec == Init /\ [][Next]_vars

\* The long body, for the channel's capacity
LongInit == InitWith({LongBody})

LongSpec == LongInit /\ [][Next]_vars

----------------------------------------------------------------------------
(* The builder's calls, config.rs 41-88. A builder is used until build()
   consumes it. *)

\* config.rs 41-45
SetTemperature ==
    /\ config = None
    /\ \E temp \in RawFloats :
          /\ builder' = [builder EXCEPT !.temperature = Some(ClampTemperature(temp))]
          /\ raw' = [raw EXCEPT !.temperature = Some(temp)]
    /\ UNCHANGED <<config, streamVars, clientVars, requestVars>>

\* config.rs 47-51
SetMaxTokens ==
    /\ config = None
    /\ \E tokens \in RawTokens :
          /\ builder' = [builder EXCEPT !.max_tokens = Some(StoreMaxTokens(tokens))]
          /\ raw' = [raw EXCEPT !.max_tokens = Some(tokens)]
    /\ UNCHANGED <<config, streamVars, clientVars, requestVars>>

\* config.rs 53-57
SetTopP ==
    /\ config = None
    /\ \E top_p \in RawFloats :
          /\ builder' = [builder EXCEPT !.top_p = Some(ClampTopP(top_p))]
          /\ raw' = [raw EXCEPT !.top_p = Some(top_p)]
    /\ UNCHANGED <<config, streamVars, clientVars, requestVars>>

\* config.rs 59-63
SetFrequencyPenalty ==
    /\ config = None
    /\ \E penalty \in RawFloats :
          /\ builder' = [builder EXCEPT
                           !.frequency_penalty = Some(ClampPenalty(penalty))]
          /\ raw' = [raw EXCEPT !.frequency_penalty = Some(penalty)]
    /\ UNCHANGED <<config, streamVars, clientVars, requestVars>>

\* config.rs 65-69
SetPresencePenalty ==
    /\ config = None
    /\ \E penalty \in RawFloats :
          /\ builder' = [builder EXCEPT
                           !.presence_penalty = Some(ClampPenalty(penalty))]
          /\ raw' = [raw EXCEPT !.presence_penalty = Some(penalty)]
    /\ UNCHANGED <<config, streamVars, clientVars, requestVars>>

\* config.rs 71-75
SetStop ==
    /\ config = None
    /\ \E stop \in RawStops :
          /\ builder' = [builder EXCEPT !.stop = Some(stop)]
          /\ raw' = [raw EXCEPT !.stop = Some(stop)]
    /\ UNCHANGED <<config, streamVars, clientVars, requestVars>>

\* config.rs 77-88
Build ==
    /\ config = None
    /\ config' = Some(BuildConfig(builder))
    /\ UNCHANGED <<builder, raw, streamVars, clientVars, requestVars>>

ConfigNext ==
    \/ SetTemperature \/ SetMaxTokens \/ SetTopP \/ SetFrequencyPenalty
    \/ SetPresencePenalty \/ SetStop \/ Build

\* The builder alone: no request is under way.
ConfigInit == InitWith({<<>>})

ConfigSpec == ConfigInit /\ [][ConfigNext]_vars

----------------------------------------------------------------------------
(* The client builder's calls, lib.rs 209-252. A builder is used until
   build() consumes it. *)

Call(setter, value) == [setter |-> setter, value |-> value]

\* lib.rs 210-215
SetApiUrl ==
    /\ client = None
    /\ Len(calls) < MaxCalls
    /\ \E url \in RawUrls :
          /\ clientBuilder' = [clientBuilder EXCEPT !.api_url = Some(url)]
          /\ calls' = Append(calls, Call("api_url", url))
    /\ UNCHANGED <<client, streamVars, configVars, requestVars>>

\* lib.rs 217-222
SetApiKey ==
    /\ client = None
    /\ Len(calls) < MaxCalls
    /\ \E key \in RawKeys :
          /\ clientBuilder' = [clientBuilder EXCEPT !.api_key = Some(key)]
          /\ calls' = Append(calls, Call("api_key", key))
    /\ UNCHANGED <<client, streamVars, configVars, requestVars>>

\* lib.rs 224-228
SetConfig ==
    /\ client = None
    /\ Len(calls) < MaxCalls
    /\ \E cfg \in RawConfigs :
          /\ clientBuilder' = [clientBuilder EXCEPT !.config = Some(cfg)]
          /\ calls' = Append(calls, Call("config", cfg))
    /\ UNCHANGED <<client, streamVars, configVars, requestVars>>

\* lib.rs 230-251
BuildClientCall ==
    /\ client = None
    /\ client' = Some(BuildClient(clientBuilder))
    /\ UNCHANGED <<clientBuilder, calls, streamVars, configVars, requestVars>>

ClientNext == SetApiUrl \/ SetApiKey \/ SetConfig \/ BuildClientCall

\* The client builder alone: no request is under way.
ClientInit == InitWith({<<>>})

ClientSpec == ClientInit /\ [][ClientNext]_vars

----------------------------------------------------------------------------
(* The calls of ask and ask_stream, lib.rs 74-188 *)

\* The bodies streamed to ask_stream: one or two frames.
RequestBodies ==
    { <<f \o Terminator>> : f \in CoreFrames }
    \cup { <<f \o Terminator \o g \o Terminator>> :
             f \in CoreFrames, g \in CoreFrames }

\* lib.rs 74-109: ask. The header fails for a key that is no header value
\* (lib.rs 44, 78), the request fails to be sent (lib.rs 87), or a response
\* comes.
Ask ==
    /\ caller = "ready"
    /\ method' = "ask"
    /\ caller' = "returned"
    /\ \/ response' = None /\ outcome' = Some(HeaderError)
       \/ response' = None /\ outcome' = Some(RequestError)
       \/ \E r \in FullResponses :
             /\ response' = Some(r)
             /\ outcome' = Some(AskResponse(r))
    /\ UNCHANGED <<streamVars, configVars, clientVars>>

\* lib.rs 112-139: ask_stream, up to the spawn of the decoder task. For a
\* response that is no success it returns the ApiError; else it makes the
\* channel and spawns the task.
AskStream ==
    /\ caller = "ready"
    /\ method' = "ask_stream"
    /\ \/ /\ response' = None /\ outcome' = Some(HeaderError)
          /\ caller' = "returned"
          /\ UNCHANGED streamVars
       \/ /\ response' = None /\ outcome' = Some(RequestError)
          /\ caller' = "returned"
          /\ UNCHANGED streamVars
       \/ \E r \in FullResponses :
             /\ ~IsSuccess(r.status)
             /\ response' = Some(r)
             /\ outcome' = Some(HandleErrorResponse(r))
             /\ caller' = "returned"
             /\ UNCHANGED streamVars
       \/ \E st \in Statuses, b \in RequestBodies :
             /\ IsSuccess(st)
             /\ response' = Some(HttpResponse(st, StreamedBody))
             /\ body' = b
             /\ rx' = "open"
             /\ pc' = "read"
             /\ caller' = "spawned"
             /\ UNCHANGED outcome
             /\ UNCHANGED <<buffer, pending, chan, received>>
             /\ UNCHANGED history
    /\ UNCHANGED <<configVars, clientVars>>

\* a variant that awaits the task before it returns
ReturnsAtEndOfTask == pc = "done"

\* lib.rs 139, 187: the JoinHandle of tokio::spawn is not awaited; nothing
\* stands between the spawn and the return
ReturnsAtOnce == TRUE

\* lib.rs 187: Ok(ReceiverStream::new(rx))
Return ==
    /\ caller = "spawned"
    /\ ReturnsAtOnce
    /\ caller' = "returned"
    /\ outcome' = Some(StreamHandle)
    /\ UNCHANGED <<method, response>>
    /\ UNCHANGED <<streamVars, configVars, clientVars>>

\* the consumer has the stream once ask_stream has returned it
ConsumerWithHandle == outcome = Some(StreamHandle) /\ Consumer

RequestNext == Ask \/ AskStream \/ Return \/ Decoder \/ ConsumerWithHandle

\* Before the call: no channel, no task.
RequestInit ==
    /\ body = <<>>
    /\ buffer = <<>>
    /\ pc = "idle"
    /\ pending = None
    /\ chan = <<>>
    /\ rx = "none"
    /\ received = <<>>
    /\ wire = <<>>
    /\ transport = "open"
    /\ sent = <<>>
    /\ discarded = FALSE
    /\ sentinelSeen = FALSE
    /\ invalidSeen = FALSE
    /\ splitAt = 0
    /\ builder = NewBuilder
    /\ config = None
    /\ raw = NewBuilder
    /\ clientBuilder = NewClientBuilder
    /\ client = None
    /\ calls = <<>>
    /\ method = "none"
    /\ caller = "ready"
    /\ response = None
    /\ outcome = None

RequestSpec == RequestInit /\ [][RequestNext]_vars

----------------------------------------------------------------------------
(* What the claims speak of *)

\* The complete frames of a text, in order: the texts between terminators.
RECURSIVE FramesOf(_)
FramesOf(text) ==
    LET pos == Find(text, Terminator)
    IN IF ~IsSome(pos) THEN <<>>
       ELSE <<SubSeq(text, 1, Unwrap(pos))>>
            \o FramesOf(SubSeq(text, Unwrap(pos) + 3, Len(text)))

\* The part of the wire text that has left the buffer.
Consumed == SubSeq(wire, 1, Len(wire) - Len(buffer))

IsDataFrame(f) == StartsWith(f, DataPrefix)
IsSentinelFrame(f) == IsDataFrame(f) /\ Payload(f) = DoneSentinel
Decodes(f) == IsDataFrame(f) /\ ~IsSentinelFrame(f) /\ IsSome(FromStr(Payload(f)))
IsMalformed(f) == IsDataFrame(f) /\ ~IsSentinelFrame(f) /\ ~IsSome(FromStr(Payload(f)))

\* The non-empty delta content of the first choice of a decoded data frame:
\* <<content>>, and <<>> for a frame that has none.
DeltaContent(f) ==
    IF ~Decodes(f) THEN <<>>
    ELSE LET choices == Unwrap(FromStr(Payload(f))).choices
         IN IF /\ Len(choices) >= 1
               /\ IsSome(choices[1].delta)
               /\ IsSome(Unwrap(choices[1].delta).content)
               /\ Unwrap(Unwrap(choices[1].delta).content) # ""
            THEN <<Unwrap(Unwrap(choices[1].delta).content)>>
            ELSE <<>>

\* What the frames of a text are to give the consumer: a fragment for each
\* non-empty delta content, a ParseError for each malformed payload.
RECURSIVE ExpectedItems(_)
ExpectedItems(frames) ==
    IF Len(frames) = 0 THEN <<>>
    ELSE LET content == DeltaContent(Head(frames))
         IN (IF content # <<>> THEN <<Ok(content[1])>>
             ELSE IF IsMalformed(Head(frames)) THEN <<ParseError>>
             ELSE <<>>)
            \o ExpectedItems(Tail(frames))

IsOk(item) == item.ok
IsParseError(item) == item = ParseError
IsRequestError(item) == item = RequestError
IsDecoderItem(item) == item # RequestError

\* The scan loop has run to the end of the buffer: the decoder is not inside
\* a scan and no scan was left at a sentinel.
ScannedAll == pc \in {"read", "done"} /\ ~sentinelSeen

----------------------------------------------------------------------------
(* C1 *)

\* C1: the Ok fragments sent are the non-empty first-choice delta contents of
\* the frames that have left the buffer, one item per frame, in wire order;
\* when the scan has run to the end these are all the complete frames of the
\* wire text; and a consumer that has not dropped the stream has received a
\* prefix of them, the rest waiting in the channel in the same order.
C1_FragmentsInWireOrder ==
    /\ SelectSeq(sent, IsOk)
         = SelectSeq(ExpectedItems(FramesOf(Consumed)), IsOk)
    /\ ScannedAll =>
         SelectSeq(sent, IsOk) = SelectSeq(ExpectedItems(FramesOf(wire)), IsOk)
    /\ rx # "dropped" => received \o chan \o pending = sent

\* two consecutive frames, "Hello" and " world", received as two items
C1_Witness ==
    /\ FramesOf(wire) = << DataPrefix \o DocumentText.Hello,
                           DataPrefix \o DocumentText.World >>
    /\ received = <<Ok("Hello"), Ok(" world")>>

----------------------------------------------------------------------------
(* C2 *)

\* C2: once a sentinel frame has been processed the decoder is in a final
\* state: whatever frames follow the sentinel, it sends no fragment and no
\* ParseError afterwards.
C2_NothingSentAfterSentinel ==
    [][sentinelSeen =>
         SelectSeq(sent', IsDecoderItem) = SelectSeq(sent, IsDecoderItem)]_vars

----------------------------------------------------------------------------
(* C3 *)

\* C3: each malformed data frame that has left the buffer has sent exactly
\* one ParseError, placed among the fragments where the frame stands on the
\* wire, and the decoder has gone on: when the scan has run to the end, every
\* complete frame of the wire text, those after a malformed one included,
\* has sent its item.
C3_ParseErrorAndGoOn ==
    LET frames == FramesOf(Consumed)
    IN /\ SelectSeq(sent, IsDecoderItem) = ExpectedItems(frames)
       /\ Len(SelectSeq(sent, IsParseError))
            = Len(SelectSeq(frames, IsMalformed))
       /\ ScannedAll =>
            SelectSeq(sent, IsDecoderItem) = ExpectedItems(FramesOf(wire))

\* a malformed frame and then a well-formed one: the error, then the fragment
C3_Witness ==
    /\ FramesOf(wire) = << DataPrefix \o TruncatedJson,
                           DataPrefix \o DocumentText.Hello >>
    /\ received = <<ParseError, Ok("Hello")>>

----------------------------------------------------------------------------
(* C4 *)

\* C4: after a failed read the decoder is in the send of that error or has
\* ended (it is never again at the read or in the scan loop), the error has
\* been sent once and is the last item sent; without a failed read no
\* transport error is sent.
C4_TransportErrorIsLast ==
    /\ transport = "failed" =>
         /\ pc \in {"send", "done"}
         /\ pc = "send" => pending = Some(RequestError)
         /\ Len(sent) >= 1 /\ sent[Len(sent)] = RequestError
    /\ Len(SelectSeq(sent, IsRequestError))
         = (IF transport = "failed" THEN 1 ELSE 0)

\* the read fails after a fragment, with text of the body still to come
C4_Witness ==
    /\ transport = "failed"
    /\ pc = "done"
    /\ Len(body) > 0
    /\ received = <<Ok("Hello"), RequestError>>

----------------------------------------------------------------------------
(* C5 *)

HasContent(f) == DeltaContent(f) # <<>>

\* C5: no empty fragment is ever sent; the fragments sent are never more
\* than the frames of the wire text with non-empty first-choice delta
\* content; and a frame that decodes sends no error: the ParseErrors sent are
\* never more than the malformed frames.
C5_NothingForEmptyOrAbsentContent ==
    LET frames == FramesOf(wire)
    IN /\ \A i \in 1..Len(sent) : sent[i] # Ok("")
       /\ Len(SelectSeq(sent, IsOk)) <= Len(SelectSeq(frames, HasContent))
       /\ Len(SelectSeq(sent, IsParseError))
            <= Len(SelectSeq(frames, IsMalformed))
       /\ Len(received) <= Len(sent)

\* a frame with empty content and then a fragment: the consumer has received
\* the fragment alone
C5_Witness ==
    /\ FramesOf(Consumed) = << DataPrefix \o DocumentText.Empty,
                               DataPrefix \o DocumentText.Hello >>
    /\ pc = "done"
    /\ received = <<Ok("Hello")>>

----------------------------------------------------------------------------
(* C6 *)

\* C6: when a chunk has brought the second newline of a terminator whose
\* first newline ended the buffer, the frame before that terminator is
\* recognised: the scan is about to take it at that very terminator, or it
\* has left the buffer; and the items sent are those of the frames that have
\* left the buffer, each once, as for any other chunking of the same text.
C6_SplitTerminatorRecognised ==
    splitAt > 0 =>
      /\ \/ /\ pc = "scan"
            /\ Find(buffer, Terminator) = Some(splitAt - 1 - Len(Consumed))
         \/ Len(Consumed) >= splitAt + 1
      /\ SelectSeq(sent, IsDecoderItem) = ExpectedItems(FramesOf(Consumed))

\* "data: {Hello}\n" and then "\n": the fragment is received once
C6_Witness ==
    /\ splitAt = 4
    /\ wire = DataPrefix \o DocumentText.Hello \o Terminator
    /\ pc = "done"
    /\ received = <<Ok("Hello")>>

----------------------------------------------------------------------------
(* C7 *)

\* C7: once the receiver is dropped the channel holds nothing and a send of
\* the decoder can always complete (it never waits); sends fail only then;
\* a failed send does not end the task: the decoder has ended only when the
\* body has ended, a read has failed or a sentinel frame has been seen.
C7_DroppedReceiverCancelsNothing ==
    /\ rx = "dropped" => chan = <<>> /\ (pc = "send" => ENABLED Send)
    /\ discarded => rx = "dropped"
    /\ pc = "done" => transport \in {"ended", "failed"} \/ sentinelSeen

\* a send failed, and the decoder went on to the end of the body, through a
\* second send
C7_Witness ==
    /\ rx = "dropped"
    /\ discarded
    /\ received = <<>>
    /\ sent = <<Ok("Hello"), Ok(" world")>>
    /\ pc = "done"
    /\ transport = "ended"

----------------------------------------------------------------------------
(* C8 *)

\* C8 as stated: the channel never holds more than 100 items, and whenever
\* it holds 100 the decoder is suspended in a send and takes no step.
C8_SuspendedWheneverFull ==
    /\ Len(chan) <= ChannelCapacity
    /\ (Len(chan) = ChannelCapacity /\ rx = "open") =>
          pc = "send" /\ ~ENABLED Decoder

\* C8, amended: the channel never holds more than 100 items; a decoder that
\* is in a send while the channel holds 100 is suspended: it takes no step,
\* so it neither scans a frame nor reads a chunk, and the only steps are the
\* consumer's, to receive an item or to drop the receiver.
C8_SuspendedInSendWhenFull ==
    /\ Len(chan) <= ChannelCapacity
    /\ (Len(chan) = ChannelCapacity /\ rx = "open" /\ pc = "send") =>
          /\ ~ENABLED Decoder
          /\ ENABLED Recv
          /\ ENABLED DropReceiver

\* 100 items wait in the channel and the decoder is in the send of the next
C8_Witness ==
    /\ Len(chan) = ChannelCapacity
    /\ rx = "open"
    /\ pc = "send"
    /\ Len(sent) = ChannelCapacity + 1

----------------------------------------------------------------------------
(* C9 *)

\* The decoder task is scheduled whenever it can run, and the consumer of
\* this claim keeps receiving. Nothing makes a read of the body return.
FairSpec ==
    /\ Spec
    /\ WF_vars(ScanFrame) /\ WF_vars(Send)
    /\ WF_vars(Recv)

\* C9: once the body has ended or a read has failed, the decoder task ends,
\* and a consumer that keeps receiving observes the end of the stream (unless
\* it drops the stream first); it has then received every item sent, once
\* and in order, and after the end it receives nothing.
C9_StreamIsFinite ==
    /\ (transport # "open") ~> (pc = "done" /\ rx \in {"ended", "dropped"})
    /\ [](rx = "ended" => pc = "done" /\ chan = <<>> /\ received = sent)
    /\ [][rx = "ended" => (rx' = "ended" /\ received' = received)]_vars

\* the end of the stream, observed after a fragment and the transport error
C9_Witness ==
    /\ rx = "ended"
    /\ transport = "failed"
    /\ received = <<Ok(" world"), RequestError>>

----------------------------------------------------------------------------
(* C10 *)

InRange(x, min, max) == ~x.nan /\ ~Less(x, min) /\ ~Less(max, x)

\* C10: every numeric field of a built config lies in its documented range.
C10_FieldsInRange ==
    config # None =>
      LET c == Unwrap(config)
      IN /\ InRange(c.temperature, Num(0), Num(200))
         /\ InRange(c.top_p, Num(0), Num(100))
         /\ InRange(c.frequency_penalty, Num(-200), Num(200))
         /\ InRange(c.presence_penalty, Num(-200), Num(200))
         /\ c.max_tokens > 0

----------------------------------------------------------------------------
(* C11 *)

\* the body of the response was read and is a document whose first choice
\* has a message
HasFirstMessage(text) ==
    /\ IsSome(Json(text))
    /\ Len(Unwrap(Json(text)).choices) >= 1
    /\ IsSome(Unwrap(Json(text)).choices[1].message)

\* C11: for a 2xx response ask returns the message content of the first
\* choice when the body is a document whose first choice has a message, and
\* ParseError otherwise (no document of the response shape, no choice, or a
\* first choice without message, whatever the later choices hold); for an
\* empty choices sequence it does not return the empty string.
C11_AskFirstMessageOrParseError ==
    (method = "ask" /\ IsSome(response) /\ IsSuccess(Unwrap(response).status))
    =>
    LET text == Unwrap(response).text
    IN /\ IsSome(outcome)
       /\ IF HasFirstMessage(text)
          THEN Unwrap(outcome) =
                 Ok(Unwrap(Unwrap(Json(text)).choices[1].message).content)
          ELSE Unwrap(outcome) = ParseError
       /\ (IsSome(Json(text)) /\ Unwrap(Json(text)).choices = <<>>)
            => Unwrap(outcome) # Ok("")

\* the first choice has no message and the second has one: ParseError
C11_Witness ==
    /\ method = "ask"
    /\ response = Some(HttpResponse(200, FullBody(DocumentText.LateMessage)))
    /\ outcome = Some(ParseError)

----------------------------------------------------------------------------
(* C12 *)

\* the text of a body read in full: the bytes themselves when they are
\* UTF-8, with U+FFFD for what is not; "Unknown error" when the body could
\* not be read
BodyText(text) ==
    IF text.read # "ok" THEN <<"Unknown error">>
    ELSE IF IsUtf8(text.bytes) THEN text.bytes
    ELSE DecodeLossy(text.bytes)

\* C12: for a response that is no 2xx, ask and ask_stream return an ApiError
\* with the status code of the response and the text of its body; after
\* ask_stream there is no stream, no channel and no decoder task, and
\* nothing was read or sent.
C12_ApiErrorAndNoStream ==
    (IsSome(response) /\ ~IsSuccess(Unwrap(response).status))
    =>
    /\ method \in {"ask", "ask_stream"}
    /\ caller = "returned"
    /\ outcome = Some(ApiError(Unwrap(response).status,
                               BodyText(Unwrap(response).text)))
    /\ rx = "none" /\ pc = "idle"
    /\ chan = <<>> /\ sent = <<>> /\ wire = <<>> /\ received = <<>>
    /\ ~ENABLED Decoder
    /\ ~ENABLED ConsumerWithHandle

\* ask_stream and a 404 with the body "quota"
C12_Witness ==
    /\ method = "ask_stream"
    /\ response = Some(HttpResponse(404, FullBody(<<"quota">>)))
    /\ outcome = Some(ApiError(404, <<"quota">>))

\* ask and a 500 whose body is no UTF-8
C12_WitnessAsk ==
    /\ method = "ask"
    /\ response = Some(HttpResponse(500, FullBody(<<"<A9>}", "quota">>)))
    /\ outcome = Some(ApiError(500, <<"<FFFD>}", "quota">>))

----------------------------------------------------------------------------
(* C13 *)

\* the values given to a setter, in the order of the calls
ValuesOf(setter) ==
    LET of == SelectSeq(calls, LAMBDA c : c.setter = setter)
    IN [i \in 1..Len(of) |-> of[i].value]

Last(seq) == seq[Len(seq)]

\* C13: build fails with a ConfigError exactly when api_url or api_key was
\* never called; otherwise the client holds the value of the last call of
\* api_url, of api_key and of config, and the default config when config was
\* never called; the order of the calls does not matter.
C13_ConfigErrorIffUrlOrKeyMissing ==
    IsSome(client) =>
      IF ValuesOf("api_url") = <<>> \/ ValuesOf("api_key") = <<>>
      THEN /\ ~Unwrap(client).ok
           /\ Unwrap(client).val = "ConfigError"
      ELSE /\ Unwrap(client).ok
           /\ Unwrap(client).api_url = Last(ValuesOf("api_url"))
           /\ Unwrap(client).api_key = Last(ValuesOf("api_key"))
           /\ Unwrap(client).config =
                IF ValuesOf("config") = <<>> THEN DefaultConfig
                ELSE Last(ValuesOf("config"))

\* the key, then two URLs: the client holds the second URL and the default
\* config
C13_Witness ==
    /\ calls = << Call("api_key", "key1"),
                  Call("api_url", "https://a.example"),
                  Call("api_url", "https://b.example") >>
    /\ client = Some(GptClient("https://b.example", "key1", DefaultConfig))

\* the URL alone: ConfigError
C13_WitnessError ==
    /\ calls = << Call("api_url", "https://a.example") >>
    /\ client = Some(ConfigError("API key is required"))

----------------------------------------------------------------------------
(* C14 *)

Fields ==
    { "temperature", "max_tokens", "top_p", "frequency_penalty",
      "presence_penalty", "stop" }

\* the step leaves every field of the builder but this one as it was
OnlyChanges(field) == \A f \in Fields \ {field} : builder'[f] = builder[f]

\* v is x brought into [min, max]: x itself when it lies there, the nearer
\* end when it does not, and in any case a value of the range
IsClamped(v, x, min, max) ==
    /\ InRange(v, min, max)
    /\ InRange(x, min, max) => v = x
    /\ Less(x, min) => v = min
    /\ Less(max, x) => v = max

\* u32::MAX stands beyond every token count of the model
IsClampedTokens(v, x) == v > 0 /\ (x > 0 => v = x)

\* the field of the built config is the default when its setter was never
\* called
FromLastCall(field, min, max) ==
    IF IsSome(raw[field])
    THEN IsClamped(Unwrap(config)[field], Unwrap(raw[field]), min, max)
    ELSE Unwrap(config)[field] = DefaultConfig[field]

TokensFromLastCall ==
    IF IsSome(raw.max_tokens)
    THEN IsClampedTokens(Unwrap(config).max_tokens, Unwrap(raw.max_tokens))
    ELSE Unwrap(config).max_tokens = DefaultConfig.max_tokens

\* C14: a setter changes its own field of the builder and no other; build()
\* gives every field the clamped value of the argument of the last call of
\* its setter, and the default (0.7, 800, 0.95, 0.0, 0.0, none) when the
\* setter was never called.
C14_SettersAndBuild ==
    /\ [][/\ SetTemperature => OnlyChanges("temperature")
          /\ SetMaxTokens => OnlyChanges("max_tokens")
          /\ SetTopP => OnlyChanges("top_p")
          /\ SetFrequencyPenalty => OnlyChanges("frequency_penalty")
          /\ SetPresencePenalty => OnlyChanges("presence_penalty")
          /\ SetStop => OnlyChanges("stop")]_vars
    /\ [](IsSome(config) =>
           /\ FromLastCall("temperature", Num(0), Num(200))
           /\ TokensFromLastCall
           /\ FromLastCall("top_p", Num(0), Num(100))
           /\ FromLastCall("frequency_penalty", Num(-200), Num(200))
           /\ FromLastCall("presence_penalty", Num(-200), Num(200))
           /\ Unwrap(config).stop = raw.stop
           /\ DefaultConfig = [ temperature |-> Num(70), max_tokens |-> 800,
                                top_p |-> Num(95),
                                frequency_penalty |-> Num(0),
                                presence_penalty |-> Num(0), stop |-> None ])

----------------------------------------------------------------------------
(* C15 *)

\* the next frame the scan takes from the buffer is a sentinel frame
SentinelAhead ==
    /\ pc = "scan"
    /\ IsSome(Find(buffer, Terminator))
    /\ IsSentinelFrame(SubSeq(buffer, 1, Unwrap(Find(buffer, Terminator))))

\* the text behind the first terminator of the buffer
BehindFirstFrame ==
    SubSeq(buffer, Unwrap(Find(buffer, Terminator)) + 3, Len(buffer))

\* C15: the step of the decoder that takes a sentinel frame leaves the scan
\* loop and nothing else: it sends nothing, the text behind the sentinel
\* frame stays in the buffer as it is, and the decoder is at the read of the
\* next chunk; the decoder is at a read with a complete frame in its buffer
\* only after a sentinel, and a decoder at a read can always take a step.
C15_SentinelLeavesScanOnly ==
    /\ [][(SentinelAhead /\ <<pc, buffer>>' # <<pc, buffer>>) =>
            /\ pc' = "read"
            /\ buffer' = BehindFirstFrame
            /\ sent' = sent /\ pending' = None /\ chan' = chan
            /\ transport' = transport]_vars
    /\ []((pc = "read" /\ IsSome(Find(buffer, Terminator))) => sentinelSeen)
    /\ [](pc = "read" => ENABLED StreamNext)

\* the sentinel and a frame came in one chunk: the frame is in the buffer,
\* nothing was sent, the decoder awaits the next chunk
C15_Witness ==
    /\ sentinelSeen
    /\ pc = "read"
    /\ transport = "open"
    /\ buffer = DataPrefix \o DocumentText.Hello \o Terminator
    /\ sent = <<>>

----------------------------------------------------------------------------
(* C16 *)

\* the text of a data frame with its one leading prefix removed
PayloadOnce(f) == SubSeq(f, Len(DataPrefix) + 1, Len(f))

\* what a payload gives: nothing for the sentinel and for a document without
\* non-empty first-choice delta content, the fragment of a document that has
\* it, a ParseError for any other text
ItemsOfPayload(data) ==
    IF data = DoneSentinel THEN <<>>
    ELSE IF ~IsSome(FromStr(data)) THEN <<ParseError>>
    ELSE LET choices == Unwrap(FromStr(data)).choices
         IN IF /\ Len(choices) >= 1
               /\ IsSome(choices[1].delta)
               /\ IsSome(Unwrap(choices[1].delta).content)
               /\ Unwrap(Unwrap(choices[1].delta).content) # ""
            THEN <<Ok(Unwrap(Unwrap(choices[1].delta).content))>>
            ELSE <<>>

\* the items of frames whose payload is the frame less one prefix
RECURSIVE ItemsStrippedOnce(_)
ItemsStrippedOnce(frames) ==
    IF Len(frames) = 0 THEN <<>>
    ELSE (IF IsDataFrame(Head(frames))
          THEN ItemsOfPayload(PayloadOnce(Head(frames)))
          ELSE <<>>)
         \o ItemsStrippedOnce(Tail(frames))

IsSentinelOnce(f) == IsDataFrame(f) /\ PayloadOnce(f) = DoneSentinel

\* C16: a frame without the prefix "data: " gives no item; the item of a
\* frame with it is that of the frame text less this one prefix, and the
\* frame is a sentinel only when that text is "[DONE]".
C16_PayloadIsFrameLessOnePrefix ==
    /\ SelectSeq(sent, IsDecoderItem) = ItemsStrippedOnce(FramesOf(Consumed))
    /\ sentinelSeen <=>
         SelectSeq(FramesOf(Consumed), IsSentinelOnce) # <<>>

----------------------------------------------------------------------------
(* C17 *)

\* the step reads a chunk of the body
ReadsChunk == pc = "read" /\ body' # body

\* the chunk that such a step reads: what the first piece of the body loses
ChunkRead ==
    IF Len(body') < Len(body) THEN Head(body)
    ELSE SubSeq(Head(body), 1, Len(Head(body)) - Len(Head(body')))

\* C17: the step that reads a chunk that is no UTF-8 leaves the buffer as it
\* is, sends nothing, starts no scan and leaves the decoder at the read of
\* the next chunk; whatever chunks were dropped, the items sent are those of
\* the frames of the text of the valid chunks that have left the buffer.
C17_InvalidChunkDroppedWhole ==
    /\ [][(ReadsChunk /\ ~IsUtf8(ChunkRead)) =>
            /\ buffer' = buffer
            /\ sent' = sent /\ pending' = pending /\ chan' = chan
            /\ wire' = wire
            /\ transport' = transport
            /\ pc' = "read"
            /\ invalidSeen']_vars
    /\ [](SelectSeq(sent, IsDecoderItem) = ExpectedItems(FramesOf(Consumed)))

\* chunks of a frame cut inside a code point were dropped, and the frame of
\* a later valid chunk was received
C17_Witness ==
    /\ invalidSeen
    /\ wire = DataPrefix \o DocumentText.Hello \o Terminator
    /\ received = <<Ok("Hello")>>
    /\ pc = "done"

----------------------------------------------------------------------------
(* C18 *)

\* ask_stream got a success response and spawned the decoder task
Streaming ==
    /\ method = "ask_stream"
    /\ IsSome(response)
    /\ IsSuccess(Unwrap(response).status)

\* C18: once the decoder task is spawned, the return of the stream handle is
\* enabled whatever the task has read so far; the return changes nothing of
\* the task or the channel, and no step of the task or the consumer changes
\* what the caller got; a call that got a success response and has returned
\* has returned the handle.
C18_HandleBeforeEndOfBody ==
    /\ [](caller = "spawned" => Streaming /\ ENABLED Return)
    /\ []((Streaming /\ caller = "returned") => outcome = Some(StreamHandle))
    /\ [][caller = "spawned" =>
            \/ caller' = "returned" /\ UNCHANGED streamVars
            \/ UNCHANGED requestVars]_vars

\* the caller has the handle and the consumer a first fragment, while the
\* task is still at the read of chunks of the body
C18_Witness ==
    /\ outcome = Some(StreamHandle)
    /\ received = <<Ok("Hello")>>
    /\ body # <<>>
    /\ pc = "read"
    /\ transport = "open"

\* the caller has the handle before the task has read anything
C18_WitnessNothingRead ==
    /\ outcome = Some(StreamHandle)
    /\ wire = <<>>
    /\ Len(body[1]) = 2 * Len(DataPrefix \o DocumentText.Hello \o Terminator)

----------------------------------------------------------------------------
(* C19 *)

\* single-byte text: no unit that holds a byte of a two-byte character
IsAscii(text) ==
    \A i \in 1..Len(text) : text[i] \notin LeadUnits \cup ContUnits

\* lib.rs 148-175: what the scan loop sends for a buffer, from its first
\* frame to the sentinel or to the text that has no terminator. It is what
\* the decoder sends for a body that comes as a single chunk.
RECURSIVE ScanLoop(_)
ScanLoop(buf) ==
    LET pos == Find(buf, Terminator)
    IN IF ~IsSome(pos) THEN <<>>
       ELSE LET out == ProcessFrame(SubSeq(buf, 1, Unwrap(pos)))
            IN out.send \o (IF out.break THEN <<>>
                            ELSE ScanLoop(PastTerminator(buf, Unwrap(pos))))

\* the chunks of a single-byte body were all read and decoded, the body
\* ended, and the consumer has taken every item
ReadToTheEnd ==
    /\ pc = "done"
    /\ transport = "ended"
    /\ IsAscii(wire)
    /\ ~invalidSeen
    /\ rx = "ended"

\* C19: for a single-byte body read to its end, what the consumer received
\* is a function of the concatenation of the chunks alone: it is what the
\* decoder sends when that text comes as a single chunk, however the text
\* was cut into chunks.
C19_SameItemsForEveryChunking ==
    ReadToTheEnd => received = ScanLoop(wire)

----------------------------------------------------------------------------
(* C20 *)

\* str::ends_with
EndsWith(s, p) ==
    /\ Len(s) >= Len(p)
    /\ SubSeq(s, Len(s) - Len(p) + 1, Len(s)) = p

\* the buffer holds text and no terminator: the start of a frame
Unterminated == buffer # <<>> /\ ~IsSome(Find(buffer, Terminator))

\* C20: the text that has left the buffer ends with a terminator, and the
\* decoder has sent at most one item for each frame of it and exactly the
\* items of those frames; the step that meets the end of the body sends
\* nothing and ends the task with the buffer as it is; an ended task sends
\* nothing more; and a consumer that has seen the end of the stream of an
\* ended body has received exactly those items.
C20_OnlyTerminatedFramesDecoded ==
    /\ [](Consumed = <<>> \/ EndsWith(Consumed, Terminator))
    /\ [](Len(SelectSeq(sent, IsDecoderItem)) <= Len(FramesOf(Consumed)))
    /\ [](SelectSeq(sent, IsDecoderItem) = ExpectedItems(FramesOf(Consumed)))
    /\ [][(pc = "read" /\ transport' = "ended") =>
            /\ pc' = "done"
            /\ sent' = sent /\ pending' = None /\ chan' = chan
            /\ buffer' = buffer]_vars
    /\ [][pc = "done" =>
            pc' = "done" /\ sent' = sent /\ buffer' = buffer]_vars
    /\ []((transport = "ended" /\ rx = "ended") =>
            received = ExpectedItems(FramesOf(Consumed)))

\* the body ended inside its second frame: the consumer got the fragment of
\* the first frame and the end of the stream, the text of the second frame
\* is still in the buffer
C20_Witness ==
    /\ transport = "ended"
    /\ pc = "done"
    /\ Unterminated
    /\ buffer = DataPrefix \o DocumentText.World
    /\ received = <<Ok("Hello")>>
    /\ rx = "ended"

============================================================================
